---- MODULE Spec2Model ----
(***************************************************************************)
(* Y-fast-trie style predecessor index (YTrie): construction from a sorted *)
(* key vector (calcDepth, split, constructTrie) and the predecessor query  *)
(* (getPredecessor).  Indices into vectors are the 0-based indices of the  *)
(* C++ code; At(s, j) reads element j of a vector.                         *)
(***************************************************************************)
EXTENDS Integers, Sequences, FiniteSets, TLC

\* ------------------------------------------------------------------ bounds
\* Largest key an input vector may hold.
MaxKey == 9

\* ------------------------------------------------------- program constants
\* Sentinel returned by the last else-branch of getPredecessor.  TLC's
\* integers are 32 bits wide, so the largest of them stands for 2^63 - 1.
LLONG_MAX == 2147483647
\* What (int64_t) of floor(log2(0)) = -infinity yields on x86-64 and AArch64;
\* the smallest TLC integer stands for -2^63.
INT64_MIN == -2147483647
\* A null pointer, and a non-null pointer that points at no object.
NULL == -1
WILD == -2

\* ----------------------------------------------------------------- inputs
Keys == 0..MaxKey
\* Query values: [0, 2 * max key], which reaches past 2^(depth+1).
Limits == 0..(2 * MaxKey)
\* Values an uninitialised / out-of-bounds read may produce.
GarbageValues == Keys \cup {LLONG_MAX}

Max(S) == CHOOSE m \in S : \A x \in S : x <= m
Min(S) == CHOOSE m \in S : \A x \in S : m <= x

RECURSIVE SortedSeq(_)
SortedSeq(S) == IF S = {} THEN << >>
                ELSE LET m == Max(S) IN Append(SortedSeq(S \ {m}), m)

At(s, j) == s[j + 1]
Back(s) == s[Len(s)]
Range(s) == {s[j] : j \in 1..Len(s)}

VARIABLES
  values,                \* the constructor's argument
  pc,                    \* position of the program
  depth_,                \* YTrie::depth_
  i,                     \* loop variable of YTrie::split
  representatives_,      \* YTrie::representatives_
  representativeValues,  \* scratch copy of the representatives' values
  lookup_,               \* YTrie::lookup_ : bit string -> node
  heap,                  \* number of Split nodes allocated by new
  stack,                 \* pending calls of YTrie::constructTrie
  limit,                 \* argument of getPredecessor
  lowRange, highRange,   \* locals of getPredecessor
  bestMatchingNode,
  result                 \* value returned by getPredecessor

vars == << values, pc, depth_, i, representatives_, representativeValues,
           lookup_, heap, stack, limit, lowRange, highRange,
           bestMatchingNode, result >>

queryVars == << limit, lowRange, highRange, bestMatchingNode, result >>

\* ------------------------------------------------------------- calcDepth
RECURSIVE Log2Floor(_)
Log2Floor(x) == IF x <= 1 THEN 0 ELSE 1 + Log2Floor(x \div 2)

\* Defined only when values is non-empty and its last element is >= 1.
calcDepth(vals) == Log2Floor(Back(vals))

calcDepthDefined(vals) == vals # << >> /\ Back(vals) >= 1

\* ------------------------------------------------------------ TrieNode
\* A representative: TrieNode(value, previous, binarySearchTree); its next
\* pointer starts null.  previous / next are indices into representatives_.
Representative(value, previous, bst) ==
  [value |-> value, previous |-> previous, next |-> NULL,
   binarySearchTree |-> bst]

\* An inner node: TrieNode(leftMax, rightMin), allocated at address addr.
SplitNode(leftMax, rightMin, addr) ==
  [isLeaf |-> FALSE, rep |-> NULL, leftMax |-> leftMax,
   rightMin |-> rightMin, addr |-> addr]

\* The lookup entry of a leaf is the representative object itself.
LeafNode(rep) ==
  [isLeaf |-> TRUE, rep |-> rep, leftMax |-> NULL, rightMin |-> NULL,
   addr |-> NULL]

NoNode == SplitNode(NULL, NULL, NULL)

setNext(reps, j, n) == [reps EXCEPT ![j + 1].next = n]

\* BST::getPredecessor(lowerBound, limit): the largest key of the block
\* that is <= limit, or lowerBound when the block has none.
BSTgetPredecessor(block, lowerBound, lim) ==
  LET below == {k \in Range(block) : k <= lim}
  IN IF below = {} THEN lowerBound ELSE Max(below)

\* ---------------------------------------------------------------- split
constructBST(position, groupSize, vals) ==
  SubSeq(vals, position - (groupSize - 1) + 1, position + 1)

addRegularTrieLeaf(vals, index, reps, depth) ==
  IF index = depth - 1
  THEN Append(reps, Representative(At(vals, index), NULL,
                                   constructBST(index, depth, vals)))
  ELSE LET pushed == Append(reps,
                       Representative(At(vals, index), Len(reps) - 1,
                                      constructBST(index, depth, vals)))
       IN setNext(pushed, Len(pushed) - 2, Len(pushed) - 1)

\* values.size() % depth as the caller and addIrregularTrieLeaf compute it;
\* size_t % int64_t is an unsigned operation, so a negative depth acts as
\* a divisor above every size.  depth = 0 is handled by the caller.
Remainder(n, depth) == IF depth < 0 THEN n ELSE n % depth

\* back is representatives->back(), read before the push.
addIrregularTrieLeaf(vals, reps, groupSize, back) ==
  LET pushed == Append(reps,
                  Representative(Back(vals), back,
                                 constructBST(Len(vals) - 1, groupSize, vals)))
  IN IF Len(pushed) >= 2
     THEN setNext(pushed, Len(pushed) - 2, Len(pushed) - 1)
     ELSE pushed

\* i < values.size() compares an int64_t with a size_t: i is converted to
\* unsigned, so a negative i is larger than every size.
SplitLoopCond(idx, vals) == idx >= 0 /\ idx < Len(vals)

\* int64_t i = depth_ - 1; wraps around at the smallest value.
SplitLoopStart(depth) == IF depth = INT64_MIN THEN LLONG_MAX ELSE depth - 1

\* -------------------------------------------------------- constructTrie
\* One pending call constructTrie(.., exponent, bitHistory, leftRange,
\* rightRange).
Frame(exponent, bitHistory, leftRange, rightRange) ==
  [exponent |-> exponent, bitHistory |-> bitHistory,
   leftRange |-> leftRange, rightRange |-> rightRange]

\* Mutant of IsInner: the leaf case is entered one level early.
IsInner_EarlyLeaf(exponent) == exponent > 0

\* exponent != -1 : construct an inner node.
IsInner(exponent) == exponent # -1

\* Indices of the window whose remaining value is >= split.
AtOrAboveSplit(rv, split, lo, hi) == {j \in lo..hi : At(rv, j) >= split}

\* splitIndex after the loop: the first index found, else rightRange + 1.
SplitIndex(rv, split, lo, hi) ==
  LET hits == AtOrAboveSplit(rv, split, lo, hi)
  IN IF hits = {} THEN hi + 1 ELSE Min(hits)

\* Mutant of LeftMax: the "no split was found" fallback is missing.
LeftMax_NoFallback(rv, split, lo, hi) ==
  LET hits == {j \in lo..hi : At(rv, j) >= split}
  IN IF hits = {} THEN NULL
     ELSE IF Min(hits) # lo THEN Min(hits) - 1 ELSE NULL

\* leftMax after the loop and the "no split was found" fallback.
LeftMax(rv, split, lo, hi) ==
  LET hits == AtOrAboveSplit(rv, split, lo, hi)
  IN IF hits = {} THEN hi
     ELSE IF Min(hits) # lo THEN Min(hits) - 1 ELSE NULL

\* rightMin after the loop.
RightMin(rv, split, lo, hi) ==
  LET hits == AtOrAboveSplit(rv, split, lo, hi)
  IN IF hits = {} THEN NULL ELSE Min(hits)

\* The loop's destructive update: split is subtracted from every value of
\* the window that is >= split.
StripBit(rv, split, lo, hi) ==
  [j \in 1..Len(rv) |->
     IF (j - 1) \in AtOrAboveSplit(rv, split, lo, hi)
     THEN rv[j] - split ELSE rv[j]]

\* std::unordered_map::insert: an existing key keeps its entry.
Insert(table, key, node) ==
  IF key \in DOMAIN table THEN table
  ELSE [k \in DOMAIN table \cup {key} |->
          IF k = key THEN node ELSE table[k]]

\* The recursive calls of an inner node, left subtree first.
Children(f, splitIndex) ==
  (IF splitIndex > f.leftRange
   THEN << Frame(f.exponent - 1, Append(f.bitHistory, 0),
                 f.leftRange, splitIndex - 1) >>
   ELSE << >>)
  \o
  (IF splitIndex <= f.rightRange
   THEN << Frame(f.exponent - 1, Append(f.bitHistory, 1),
                 splitIndex, f.rightRange) >>
   ELSE << >>)

\* std::string::substr(pos, len), pos <= size.
Substr(str, pos, len) ==
  SubSeq(str, pos + 1, IF pos + len > Len(str) THEN Len(str) ELSE pos + len)

\* bitHistory.compare(bitHistory.size(), 1, "0") == 0
LeafPicksLeft(bitHistory) == Substr(bitHistory, Len(bitHistory), 1) = << 0 >>

LeafRep(f) == IF LeafPicksLeft(f.bitHistory) THEN f.leftRange
              ELSE f.rightRange

\* ------------------------------------------------------------------ Init
Init ==
  /\ \E S \in SUBSET Keys : values = SortedSeq(S)
  /\ pc = "calcDepth"
  /\ depth_ = 0
  /\ i = 0
  /\ representatives_ = << >>
  /\ representativeValues = << >>
  /\ lookup_ = << >>
  /\ heap = 0
  /\ stack = << >>
  /\ limit = 0
  /\ lowRange = 0
  /\ highRange = 0
  /\ bestMatchingNode = NoNode
  /\ result = 0

\* A crash ends the program; nothing else is observable afterwards.
Crash == pc' = "crashed"

\* depth_(calcDepth(values)) and the initialisation of split's loop.
CalcDepth ==
  /\ pc = "calcDepth"
  /\ IF calcDepthDefined(values)
     THEN /\ depth_' = calcDepth(values)
          /\ pc' = "split"
     ELSE \* values.back() of an empty vector, or the conversion of
          \* -infinity to int64_t: undefined.
          \/ /\ Crash
             /\ depth_' = depth_
          \/ /\ depth_' = INT64_MIN
             /\ pc' = "split"
  /\ i' = IF pc' = "split" THEN SplitLoopStart(depth_') ELSE i
  /\ UNCHANGED << values, representatives_, representativeValues, lookup_,
                  heap, stack >>
  /\ UNCHANGED queryVars

\* One iteration of split's loop.
SplitRegular ==
  /\ pc = "split"
  /\ SplitLoopCond(i, values)
  /\ representatives_' =
       addRegularTrieLeaf(values, i, representatives_, depth_)
  /\ i' = i + depth_
  /\ UNCHANGED << values, pc, depth_, representativeValues, lookup_, heap,
                  stack >>
  /\ UNCHANGED queryVars

\* The constructor after split: representativeValues and the first call
\* of constructTrie.
StartTrie(reps) ==
  /\ representatives_' = reps
  /\ representativeValues' = [j \in 1..Len(reps) |-> reps[j].value]
  /\ stack' = << Frame(depth_, << >>, 0, Len(reps) - 1) >>
  /\ pc' = "constructTrie"

\* The end of split's loop, the irregular leaf, and the constructor up to
\* the first call of constructTrie.
SplitTail ==
  /\ pc = "split"
  /\ ~SplitLoopCond(i, values)
  /\ \/ \* values.size() % 0 : undefined; traps on x86-64
        /\ depth_ = 0
        /\ Crash
        /\ UNCHANGED << representatives_, representativeValues, stack >>
     \/ \E rem \in 0..Len(values) :
          \* values.size() % 0 without a trap leaves the dividend
          /\ rem = IF depth_ = 0 THEN Len(values)
                   ELSE Remainder(Len(values), depth_)
          /\ IF rem = 0
             THEN StartTrie(representatives_)
             ELSE IF representatives_ # << >>
             THEN StartTrie(addIrregularTrieLeaf(values, representatives_,
                              rem, Len(representatives_) - 1))
             ELSE \* representatives->back() of an empty vector and
                  \* setNext through (*representatives)[-1] : undefined
                  \/ /\ Crash
                     /\ UNCHANGED << representatives_, representativeValues,
                                     stack >>
                  \/ \E back \in {NULL, WILD} :
                       StartTrie(addIrregularTrieLeaf(values,
                                   representatives_, rem, back))
  /\ UNCHANGED << values, depth_, i, lookup_, heap >>
  /\ UNCHANGED queryVars

\* constructTrie, exponent != -1.
ConstructInner ==
  /\ pc = "constructTrie"
  /\ stack # << >>
  /\ IsInner(Head(stack).exponent)
  /\ LET f == Head(stack)
     IN IF f.exponent < 0 \/ f.rightRange < f.leftRange
        THEN \* 1LL << exponent with a negative exponent, and
             \* (*representatives)[-1] : undefined; a recursion that
             \* starts below -1 never reaches the leaf case.
             /\ Crash
             /\ UNCHANGED << representativeValues, lookup_, heap, stack >>
        ELSE LET split == 2 ^ f.exponent
                 rv == representativeValues
                 lo == f.leftRange
                 hi == f.rightRange
                 node == SplitNode(LeftMax(rv, split, lo, hi),
                                   RightMin(rv, split, lo, hi), heap)
             IN /\ representativeValues' = StripBit(rv, split, lo, hi)
                /\ lookup_' = Insert(lookup_, f.bitHistory, node)
                /\ heap' = heap + 1
                /\ stack' = Children(f, SplitIndex(rv, split, lo, hi))
                              \o Tail(stack)
                /\ pc' = pc
  /\ UNCHANGED << values, depth_, i, representatives_ >>
  /\ UNCHANGED queryVars

\* constructTrie, exponent == -1.
ConstructLeaf ==
  /\ pc = "constructTrie"
  /\ stack # << >>
  /\ ~IsInner(Head(stack).exponent)
  /\ LET f == Head(stack)
     IN lookup_' = Insert(lookup_, f.bitHistory, LeafNode(LeafRep(f)))
  /\ stack' = Tail(stack)
  /\ UNCHANGED << values, pc, depth_, i, representatives_,
                  representativeValues, heap >>
  /\ UNCHANGED queryVars

\* The outermost call of constructTrie returns; the constructor is done.
Constructed ==
  /\ pc = "constructTrie"
  /\ stack = << >>
  /\ pc' = "built"
  /\ UNCHANGED << values, depth_, i, representatives_, representativeValues,
                  lookup_, heap, stack >>
  /\ UNCHANGED queryVars

\* ------------------------------------------------------- getPredecessor
Bit(x, j) == (x \div (2 ^ j)) % 2

\* std::bitset<64>(limit).to_string().substr(64 - (depth_ + 1)): the low
\* depth_ + 1 bits of limit, most significant first; higher bits are cut.
fullBitString(lim, depth) ==
  [k \in 1..(depth + 1) |-> Bit(lim, depth + 1 - k)]

\* round((lowRange + highRange) / 2) on integers.
Middle(low, high) == (low + high) \div 2

\* lowRange after a matched prefix.
LowAfterMatch(low, middle) == IF low = middle THEN low + 1 ELSE middle

\* highRange after a prefix that is not in the table.
HighAfterMiss(high, middle) == IF high = middle THEN high - 1 ELSE middle

\* One iteration of the while loop on the locals s.
SearchIteration(s, full, table) ==
  LET middle == Middle(s.lowRange, s.highRange)
      partBitString == Substr(full, 0, middle)
  IN IF partBitString \in DOMAIN table
     THEN [lowRange |-> LowAfterMatch(s.lowRange, middle),
           highRange |-> s.highRange,
           bestMatchingNode |-> table[partBitString]]
     ELSE [lowRange |-> s.lowRange,
           highRange |-> HighAfterMiss(s.highRange, middle),
           bestMatchingNode |-> s.bestMatchingNode]

\* Mutant of SearchStart: the search stops one prefix length short.
SearchStart_Short(depth, table) ==
  [lowRange |-> 0, highRange |-> depth,
   bestMatchingNode |-> table[<< >>]]

\* The locals before the loop.
SearchStart(depth, table) ==
  [lowRange |-> 0, highRange |-> depth + 1,
   bestMatchingNode |-> table[<< >>]]

\* Split node with leftMax set.
ResolveLeftMax(leftMax, lim, reps) ==
  IF At(reps, leftMax).next # NULL
  THEN BSTgetPredecessor(
         At(reps, At(reps, leftMax).next).binarySearchTree,
         At(reps, leftMax).value, lim)
  ELSE At(reps, leftMax).value

\* previous()->getValue(); garbage is what a read through a pointer to no
\* object yields.
PreviousValue(previous, reps, garbage) ==
  IF previous = WILD THEN garbage ELSE At(reps, previous).value

\* Mutant of ResolveRightMin: the lookup runs on the previous
\* representative's block.
ResolveRightMin_PreviousBlock(rightMin, lim, reps, garbage) ==
  IF At(reps, rightMin).previous # NULL
  THEN BSTgetPredecessor(
         IF At(reps, rightMin).previous = WILD
         THEN At(reps, rightMin).binarySearchTree
         ELSE At(reps, At(reps, rightMin).previous).binarySearchTree,
         PreviousValue(At(reps, rightMin).previous, reps, garbage), lim)
  ELSE BSTgetPredecessor(At(reps, rightMin).binarySearchTree, 0, lim)

\* Mutant of ResolveRightMin: the lower bound is always 0.
ResolveRightMin_ZeroBound(rightMin, lim, reps, garbage) ==
  BSTgetPredecessor(At(reps, rightMin).binarySearchTree, 0, lim)

\* Split node with only rightMin set.
ResolveRightMin(rightMin, lim, reps, garbage) ==
  IF At(reps, rightMin).previous # NULL
  THEN BSTgetPredecessor(
         At(reps, rightMin).binarySearchTree,
         PreviousValue(At(reps, rightMin).previous, reps, garbage), lim)
  ELSE BSTgetPredecessor(At(reps, rightMin).binarySearchTree, 0, lim)

\* The code after the loop.
Resolve(node, lim, reps, garbage) ==
  IF node.isLeaf THEN At(reps, node.rep).value
  ELSE IF node.leftMax # NULL THEN ResolveLeftMax(node.leftMax, lim, reps)
  ELSE IF node.rightMin # NULL
       THEN ResolveRightMin(node.rightMin, lim, reps, garbage)
  ELSE LLONG_MAX

\* The branch taken reads through a previous pointer that points nowhere.
ReadsWild(node, reps) ==
  /\ ~node.isLeaf
  /\ node.leftMax = NULL
  /\ node.rightMin # NULL
  /\ At(reps, node.rightMin).previous = WILD

\* getPredecessor up to the loop.
Query ==
  /\ pc = "built"
  /\ \E lim \in Limits :
       /\ limit' = lim
       /\ lowRange' = SearchStart(depth_, lookup_).lowRange
       /\ highRange' = SearchStart(depth_, lookup_).highRange
       /\ bestMatchingNode' = SearchStart(depth_, lookup_).bestMatchingNode
  /\ pc' = "search"
  /\ UNCHANGED << values, depth_, i, representatives_, representativeValues,
                  lookup_, heap, stack, result >>

\* One iteration of the binary search over prefix lengths.
SearchStep ==
  /\ pc = "search"
  /\ lowRange <= highRange
  /\ LET s == SearchIteration(
                [lowRange |-> lowRange, highRange |-> highRange,
                 bestMatchingNode |-> bestMatchingNode],
                fullBitString(limit, depth_), lookup_)
     IN /\ lowRange' = s.lowRange
        /\ highRange' = s.highRange
        /\ bestMatchingNode' = s.bestMatchingNode
  /\ UNCHANGED << values, pc, depth_, i, representatives_,
                  representativeValues, lookup_, heap, stack, limit, result >>

\* The loop has ended: getPredecessor returns.
Return ==
  /\ pc = "search"
  /\ lowRange > highRange
  /\ IF ReadsWild(bestMatchingNode, representatives_)
     THEN \/ /\ Crash
             /\ result' = result
          \/ /\ \E garbage \in GarbageValues :
                  result' = Resolve(bestMatchingNode, limit,
                                    representatives_, garbage)
             /\ pc' = "answered"
     ELSE /\ result' = Resolve(bestMatchingNode, limit, representatives_, 0)
          /\ pc' = "answered"
  /\ UNCHANGED << values, depth_, i, representatives_, representativeValues,
                  lookup_, heap, stack, limit, lowRange, highRange,
                  bestMatchingNode >>

Next ==
  \/ CalcDepth
  \/ SplitRegular
  \/ SplitTail
  \/ ConstructInner
  \/ ConstructLeaf
  \/ Constructed
  \/ Query
  \/ SearchStep
  \/ Return

Spec == Init /\ [][Next]_vars

\* =================================================================
\* Properties
\* =================================================================
\* The explicit "no predecessor" outcome of the specification: not a key.
NoPredecessor == 0 - 1

KeySet == Range(values)
n == Len(values)

\* Non-empty, ascending, distinct (by Init), all keys >= 1.
ValidInput == values # << >> /\ \A k \in KeySet : k >= 1

\* The inputs on which no step of the construction is undefined: every
\* step of split has a divisor and a predecessor to link to.
DefinedBuild == ValidInput /\ depth_ >= 1 /\ n >= depth_

ExactPredecessor(lim) ==
  LET below == {k \in KeySet : k <= lim}
  IN IF below = {} THEN NoPredecessor ELSE Max(below)

RECURSIVE SearchLoop(_, _, _)
SearchLoop(s, full, table) ==
  IF s.lowRange <= s.highRange
  THEN SearchLoop(SearchIteration(s, full, table), full, table)
  ELSE s

\* getPredecessor(lim) as a function of the constructed index.
GetPredecessor(lim) ==
  Resolve(SearchLoop(SearchStart(depth_, lookup_),
                     fullBitString(lim, depth_), lookup_).bestMatchingNode,
          lim, representatives_, 0)

Ceil(a, b) == (a + b - 1) \div b

\* ---------------------------------------------------------------- C1
\* C1 (as claimed): for a valid key set of size d-1, d, d+1, 2d or 2d+1
\* and every limit in [0, 2*max], getPredecessor returns the largest key
\* <= limit, or NoPredecessor when there is none.  Stated for the sizes
\* n >= d on which the construction is defined (n = d-1 is C5's case) and
\* for the limits that have a predecessor (the others are C4's case).
C1_ExactPredecessor ==
  (/\ pc = "answered"
   /\ DefinedBuild
   /\ limit >= Min(KeySet)
   /\ LET d == Log2Floor(Back(values))
      IN n \in {d - 1, d, d + 1, 2 * d, 2 * d + 1})
  => result = ExactPredecessor(limit)

\* ---------------------------------------------------------------- C2
\* C2: for every key k of the input, getPredecessor(k) returns k.
C2_RoundTrip ==
  (pc = "answered" /\ limit \in KeySet) => result = limit

\* A key that is not a representative, answered through a Split node with
\* only rightMin set and a lookup in rightMin's block.
C2_Witness ==
  /\ pc = "answered"
  /\ limit \in KeySet
  /\ result = limit
  /\ ~bestMatchingNode.isLeaf
  /\ bestMatchingNode.leftMax = NULL
  /\ bestMatchingNode.rightMin # NULL
  /\ At(representatives_, bestMatchingNode.rightMin).previous >= 0
  /\ \A j \in 1..Len(representatives_) : representatives_[j].value # limit

\* ---------------------------------------------------------------- C3
\* C3 (as claimed): getPredecessor is non-decreasing in limit, for all
\* query values, also those at or above 2^(d+1).
C3_Monotone ==
  (pc = "answered" /\ DefinedBuild)
  => \A a \in Limits : a <= limit => GetPredecessor(a) <= result

\* ---------------------------------------------------------------- C4
\* C4 (as claimed): for a limit below every key the result is the explicit
\* NoPredecessor outcome, not a number such as the lower bound 0.  Stated
\* for the indexes whose construction is defined.
C4_ExplicitNoPredecessor ==
  (pc = "answered" /\ DefinedBuild /\ limit < Min(KeySet))
  => result = NoPredecessor

\* ---------------------------------------------------------------- C5
\* C5 (as claimed): for every valid input, also with n < d or d = 0, split
\* completes with ceil(n/d) representatives in block order; every block
\* but the last holds d consecutive keys, the last holds the rest, and
\* each representative's key is the last key of its block.
C5_SplitBlocks ==
  ValidInput =>
    /\ pc # "crashed"
    /\ pc \in {"constructTrie", "built", "search", "answered"} =>
         /\ depth_ >= 1
         /\ Len(representatives_) = Ceil(n, depth_)
         /\ \A j \in 1..Len(representatives_) :
              LET last == IF j * depth_ < n THEN j * depth_ ELSE n
              IN /\ representatives_[j].binarySearchTree
                      = SubSeq(values, (j - 1) * depth_ + 1, last)
                 /\ representatives_[j].value = values[last]

\* ---------------------------------------------------------------- C6
\* C6 (as claimed): construction from an empty input or from a maximum key
\* of 0 ends in a fault; split and constructTrie never run.
C6_ConstructionFault ==
  ~calcDepthDefined(values) => pc \in {"calcDepth", "crashed"}

\* ---------------------------------------------------------------- C7
Parent(path) == SubSeq(path, 1, Len(path) - 1)

\* C7: after constructTrie the root path is present, every present path
\* has its parent present, a path maps to a Leaf iff its length is d+1,
\* and no path is longer than d+1.
C7_WellFormedTable ==
  pc \in {"built", "search", "answered"} =>
    /\ << >> \in DOMAIN lookup_
    /\ \A path \in DOMAIN lookup_ :
         /\ Len(path) > 0 => Parent(path) \in DOMAIN lookup_
         /\ lookup_[path].isLeaf <=> Len(path) = depth_ + 1
         /\ Len(path) <= depth_ + 1

\* A finished table over several representatives with at least two leaves.
C7_Witness ==
  /\ pc = "built"
  /\ Len(representatives_) >= 2
  /\ depth_ >= 2
  /\ Cardinality({path \in DOMAIN lookup_ : lookup_[path].isLeaf}) >= 2

\* ---------------------------------------------------------------- C8
\* C8: every Split node of the table has leftMax or rightMin set, and the
\* node a query ends on never leads to the last else-branch.
C8_SplitPopulated ==
  /\ \A path \in DOMAIN lookup_ :
       ~lookup_[path].isLeaf =>
         (lookup_[path].leftMax # NULL \/ lookup_[path].rightMin # NULL)
  /\ pc \in {"search", "answered"} =>
       \/ bestMatchingNode.isLeaf
       \/ bestMatchingNode.leftMax # NULL
       \/ bestMatchingNode.rightMin # NULL

\* A query answered from a Split node whose leftMax comes from the
\* "no split was found" fallback.
C8_Witness ==
  /\ pc = "answered"
  /\ ~bestMatchingNode.isLeaf
  /\ bestMatchingNode.leftMax # NULL
  /\ bestMatchingNode.rightMin = NULL
  /\ result # LLONG_MAX

\* ---------------------------------------------------------------- C9
\* The query ended on a Split node with rightMin set and leftMax not.
RightMinCase ==
  /\ pc = "answered"
  /\ ~bestMatchingNode.isLeaf
  /\ bestMatchingNode.leftMax = NULL
  /\ bestMatchingNode.rightMin # NULL

OwnBlock == At(representatives_, bestMatchingNode.rightMin).binarySearchTree
PreviousOfRightMin == At(representatives_, bestMatchingNode.rightMin).previous

\* C9 (as claimed): with a previous representative the result is the
\* lookup on the PREVIOUS representative's block with lowerBound =
\* previous.key; otherwise the lookup on rightMin's block with lowerBound 0.
\* Stated for valid inputs and limits up to the largest key.
C9_PreviousBlock ==
  (RightMinCase /\ DefinedBuild /\ limit <= Back(values)) =>
    /\ PreviousOfRightMin >= 0 =>
         result = BSTgetPredecessor(
                    At(representatives_, PreviousOfRightMin).binarySearchTree,
                    At(representatives_, PreviousOfRightMin).value, limit)
    /\ PreviousOfRightMin = NULL =>
         result = BSTgetPredecessor(OwnBlock, 0, limit)

\* C9 (amended): with a previous representative the result is the lookup
\* on rightMin's OWN block with lowerBound = previous.key; with a null
\* previous link it is the lookup on rightMin's block with lowerBound 0.
C9_OwnBlock ==
  RightMinCase =>
    /\ PreviousOfRightMin >= 0 =>
         result = BSTgetPredecessor(
                    OwnBlock,
                    At(representatives_, PreviousOfRightMin).value, limit)
    /\ PreviousOfRightMin = NULL =>
         result = BSTgetPredecessor(OwnBlock, 0, limit)

\* rightMin has a previous representative and no key of rightMin's block
\* is <= limit: the result is the previous representative's key.
C9_Witness ==
  /\ RightMinCase
  /\ PreviousOfRightMin >= 0
  /\ \A k \in Range(OwnBlock) : k > limit
  /\ result = At(representatives_, PreviousOfRightMin).value
  /\ result > 0

\* --------------------------------------------------------------- C10
Prefix(lim, len) == Substr(fullBitString(lim, depth_), 0, len)

LongestPresentPrefix(lim) ==
  Prefix(lim, Max({len \in 0..(depth_ + 1) :
                     Prefix(lim, len) \in DOMAIN lookup_}))

\* C10: every iteration of the binary search strictly raises lowRange or
\* strictly lowers highRange within [0, d+2] and [-1, d+1], so the loop
\* ends; when it has ended bestMatchingNode is the node at the longest
\* prefix of limit's (d+1)-bit string that is in the table.
C10_BinarySearch ==
  /\ [](pc = "search" =>
          /\ lowRange \in 0..(depth_ + 2)
          /\ highRange \in (0 - 1)..(depth_ + 1)
          /\ lowRange > highRange =>
               bestMatchingNode = lookup_[LongestPresentPrefix(limit)])
  /\ [][(pc = "search" /\ pc' = "search") =>
          /\ highRange' - lowRange' < highRange - lowRange
          /\ \/ lowRange' > lowRange /\ highRange' = highRange
             \/ highRange' < highRange /\ lowRange' = lowRange]_vars

\* The loop has ended on the full path of length d+1 (a Leaf), d >= 2.
C10_Witness ==
  /\ pc = "search"
  /\ lowRange > highRange
  /\ depth_ >= 2
  /\ bestMatchingNode.isLeaf
  /\ Len(LongestPresentPrefix(limit)) = depth_ + 1

====
